---- MODULE Spec2Model ----
(***************************************************************************)
(* Model of openconfig_pyang/plugins/util/rst_emitter.py: the RST          *)
(* documentation emitter for YANG modules.                                 *)
(*                                                                         *)
(* A Python str is a sequence of one-character strings, so that len(),     *)
(* concatenation, repetition and substring search are computed as Python   *)
(* computes them.  A Python dict is a sequence of <<key, value>> pairs in  *)
(* insertion order.  An attrs dict with optional keys is a record whose    *)
(* DOMAIN holds exactly the keys that are present.                         *)
(***************************************************************************)
EXTENDS Integers, Sequences, FiniteSets, TLC

VARIABLES moduledocs, call, nappended

vars == <<moduledocs, call, nappended>>

-----------------------------------------------------------------------------
(* Bounds *)

MaxContentLen == 3

-----------------------------------------------------------------------------
(* Python str and dict primitives used by the emitter *)

NL == "\n"

\* the backquote character (the string syntax of TLA+ has no backquote)
BQ == "BACKQUOTE"

\* symbol * n
RECURSIVE Repeat(_, _)
Repeat(symbol, n) == IF n <= 0 THEN <<>> ELSE <<symbol>> \o Repeat(symbol, n - 1)

\* key in d
DictHas(d, key) == \E k \in 1..Len(d) : d[k][1] = key

\* d[key]
DictGet(d, key) == d[CHOOSE k \in 1..Len(d) : d[k][1] = key][2]

\* d[key] = value : an existing key keeps its position, a new key goes last
DictSet(d, key, value) ==
    IF DictHas(d, key)
    THEN [k \in 1..Len(d) |-> IF d[k][1] = key THEN <<key, value>> ELSE d[k]]
    ELSE Append(d, <<key, value>>)

\* iteration order of the keys of d
DictKeys(d) == [k \in 1..Len(d) |-> d[k][1]]

\* attrs.get(key, default)
AttrGet(attrs, key, default) ==
    IF key \in DOMAIN attrs THEN attrs[key] ELSE default

\* text.split(sep) for a one-character separator
SplitOn(text, sep) ==
    LET ends == SelectSeq([k \in 1..(Len(text) + 1) |-> k],
                          LAMBDA k : k = Len(text) + 1 \/ text[k] = sep)
    IN  [n \in 1..Len(ends) |->
            SubSeq(text, (IF n = 1 THEN 0 ELSE ends[n - 1]) + 1, ends[n] - 1)]

\* None where a str is expected, None where an object is expected
NoneStr == <<"None">>

NoneObj == [none |-> TRUE]

-----------------------------------------------------------------------------
(* Formatting helpers *)

\* an underline of one marker more than the content has characters
h_long_underline(content, symbol) ==
    content \o <<NL>> \o Repeat(symbol, Len(content) + 1) \o <<NL>>

h(content, symbol) == content \o <<NL>> \o Repeat(symbol, Len(content)) \o <<NL>>

h1(content) == h(content, "#")

h2(content) == h(content, "*")

h3(content) == h(content, "=")

h4(content) == h(content, "-")

h5(content) == h(content, "^")

h6(content) == h(content, "\"")

b(content) == <<"*", "*">> \o content \o <<"*", "*">>

i(content) == <<"*">> \o content \o <<"*">>

c(content) == <<BQ, BQ>> \o content \o <<BQ, BQ>>

block(content) == <<NL>> \o content \o <<NL, NL>>

newline == <<NL>>

separator == <<NL, NL, "-", "-", "-", "-", "-", NL, NL>>

\* the helper of the given heading level
hN(level, content) ==
    CASE level = 1 -> h1(content)
      [] level = 2 -> h2(content)
      [] level = 3 -> h3(content)
      [] level = 4 -> h4(content)
      [] level = 5 -> h5(content)
      [] level = 6 -> h6(content)

-----------------------------------------------------------------------------
(* Inputs of the header helpers *)

HeaderAlphabet == {"a", "#", " "}

RECURSIVE StringsUpTo(_, _)
StringsUpTo(alphabet, n) ==
    IF n = 0 THEN {<<>>}
    ELSE LET shorter == StringsUpTo(alphabet, n - 1)
         IN  shorter \cup {<<ch>> \o s : ch \in alphabet, s \in shorter}

HeaderContents == StringsUpTo(HeaderAlphabet, MaxContentLen)

-----------------------------------------------------------------------------
(* State after construction of the emitter: no module documented yet *)

Init ==
    /\ moduledocs = <<>>
    /\ call = [op |-> "init"]
    /\ nappended = 0

-----------------------------------------------------------------------------
(* A caller applies one of h1..h6 to a content string *)

HeaderCall ==
    \E level \in 1..6, content \in HeaderContents :
        /\ call' = [op |-> "h", level |-> level, content |-> content,
                    ret |-> hN(level, content)]
        /\ UNCHANGED <<moduledocs, nappended>>

-----------------------------------------------------------------------------
(* gen_type_info: documentation of a type, expanding compound types *)

S_Type == <<"T", "y", "p", "e">>

S_pattern == <<"p", "a", "t", "t", "e", "r", "n">>

S_range == <<"r", "a", "n", "g", "e">>

S_base == <<"b", "a", "s", "e">>

S_path_reference == <<"p", "a", "t", "h", " ", "r", "e", "f", "e", "r", "e", "n", "c", "e">>

T_enumeration == <<"e", "n", "u", "m", "e", "r", "a", "t", "i", "o", "n">>

T_string == <<"s", "t", "r", "i", "n", "g">>

T_union == <<"u", "n", "i", "o", "n">>

T_identityref == <<"i", "d", "e", "n", "t", "i", "t", "y", "r", "e", "f">>

T_leafref == <<"l", "e", "a", "f", "r", "e", "f">>

T_boolean == <<"b", "o", "o", "l", "e", "a", "n">>

T_uint8 == <<"u", "i", "n", "t", "8">>

\* YangDocDefs.integer_types: the built-in integer types of YANG
integer_types ==
    { <<"i", "n", "t", "8">>, <<"i", "n", "t", "1", "6">>,
      <<"i", "n", "t", "3", "2">>, <<"i", "n", "t", "6", "4">>,
      T_uint8, <<"u", "i", "n", "t", "1", "6">>,
      <<"u", "i", "n", "t", "3", "2">>, <<"u", "i", "n", "t", "6", "4">> }

\* for enum, desc in typedoc.attrs["enums"].items(): s += block(...)
RECURSIVE gen_enum_items(_, _)
gen_enum_items(prefix, enums) ==
    IF enums = <<>> THEN <<>>
    ELSE block(prefix \o <<"*", " ">> \o c(Head(enums)[1]) \o <<":", " ">> \o Head(enums)[2])
         \o gen_enum_items(prefix, Tail(enums))

\* block("{}* {}: {}".format(prefix, b(label), c(value)))
gen_restriction(prefix, label, value) ==
    block(prefix \o <<"*", " ">> \o b(label) \o <<":", " ">> \o c(value))

RECURSIVE gen_type_info(_, _)
RECURSIVE gen_child_types(_)

\* the loop with the is_union argument of the recursive call left out
gen_child_types_default(childtypes) ==
    IF childtypes = <<>> THEN <<>>
    ELSE gen_type_info(Head(childtypes), FALSE) \o gen_child_types(Tail(childtypes))

\* for childtype in typedoc.childtypes: s += gen_type_info(childtype, is_union=True)
gen_child_types(childtypes) ==
    IF childtypes = <<>> THEN <<>>
    ELSE gen_type_info(Head(childtypes), TRUE) \o gen_child_types(Tail(childtypes))

gen_type_info(typedoc, is_union) ==
    LET b_prefix == IF is_union THEN <<"*", " ", " ">> ELSE <<>>
        prefix   == IF is_union THEN <<" ", " ">> ELSE <<>>
        s        == block(b_prefix \o b(S_Type) \o <<":", " ">> \o c(typedoc.typename))
        typename == typedoc.typename
    IN  IF typename = T_enumeration
        THEN s \o gen_enum_items(prefix, typedoc.attrs.enums)
        ELSE IF typename = T_string
        THEN IF DictHas(typedoc.attrs.restrictions, S_pattern)
             THEN s \o gen_restriction(prefix, S_pattern,
                                       DictGet(typedoc.attrs.restrictions, S_pattern))
             ELSE s
        ELSE IF typename \in integer_types
        THEN IF DictHas(typedoc.attrs.restrictions, S_range)
             THEN s \o gen_restriction(prefix, S_range,
                                       DictGet(typedoc.attrs.restrictions, S_range))
             ELSE s
        ELSE IF typename = T_identityref
        THEN s \o gen_restriction(prefix, S_base, typedoc.attrs.base)
        ELSE IF typename = T_leafref
        THEN s \o gen_restriction(prefix, S_path_reference, typedoc.attrs.leafref_path)
        ELSE IF typename = T_union
        THEN s \o gen_child_types(typedoc.childtypes)
        ELSE s

-----------------------------------------------------------------------------
(* Type documentation objects handed over by the toolchain: every typedoc  *)
(* carries typename, attrs (with a restrictions dict) and childtypes; only *)
(* a union has child types.                                                *)

MaxTypeNodes == 4

TypeDoc(typename, attrs, childtypes) ==
    [typename |-> typename, attrs |-> attrs, childtypes |-> childtypes]

StringPlain == TypeDoc(T_string, [restrictions |-> <<>>], <<>>)

StringPattern ==
    TypeDoc(T_string, [restrictions |-> << <<S_pattern, <<"x", "+">>>> >>], <<>>)

EnumType ==
    TypeDoc(T_enumeration,
            [restrictions |-> <<>>,
             enums |-> << <<<<"u", "p">>, <<"o", "n">>>>, <<<<"d", "n">>, <<>>>> >>],
            <<>>)

IntPlain == TypeDoc(T_uint8, [restrictions |-> <<>>], <<>>)

IntRange ==
    TypeDoc(T_uint8, [restrictions |-> << <<S_range, <<"1", ".", ".", "9">>>> >>], <<>>)

IdentityRef ==
    TypeDoc(T_identityref, [restrictions |-> <<>>, base |-> <<"b", "1">>], <<>>)

LeafRef ==
    TypeDoc(T_leafref, [restrictions |-> <<>>, leafref_path |-> <<"/", "x">>], <<>>)

Boolean == TypeDoc(T_boolean, [restrictions |-> <<>>], <<>>)

UnionOf(childtypes) == TypeDoc(T_union, [restrictions |-> <<>>], childtypes)

LeafTypes ==
    {StringPlain, StringPattern, EnumType, IntPlain, IntRange, IdentityRef,
     LeafRef, Boolean}

\* the leaves the enumerated type trees are built from
TreeLeaves == {StringPattern, Boolean}

RECURSIVE TypeTrees(_)
RECURSIVE TypeForests(_)

\* the type trees with exactly n nodes
TypeTrees(n) ==
    IF n = 1 THEN TreeLeaves \cup {UnionOf(<<>>)}
    ELSE {UnionOf(f) : f \in TypeForests(n - 1)}

\* the sequences of type trees with n nodes in all
TypeForests(n) ==
    IF n = 0 THEN {<<>>}
    ELSE UNION { {<<t>> \o f : t \in TypeTrees(k), f \in TypeForests(n - k)} : k \in 1..n }

TypeDocs == LeafTypes \cup UNION {TypeTrees(n) : n \in 1..MaxTypeNodes}

-----------------------------------------------------------------------------
(* A caller applies gen_type_info to a type tree *)

TypeInfoCall ==
    \E typedoc \in TypeDocs, is_union \in BOOLEAN :
        /\ call' = [op |-> "gen_type_info", typedoc |-> typedoc,
                    is_union |-> is_union,
                    ret |-> gen_type_info(typedoc, is_union)]
        /\ UNCHANGED <<moduledocs, nappended>>

NextType == TypeInfoCall

SpecType == Init /\ [][NextType]_vars

-----------------------------------------------------------------------------
(* Reading a generated text back: lines, prefixes, substrings *)

\* the lines of a text, without their newlines
Lines(text) ==
    LET ends == SelectSeq([k \in 1..(Len(text) + 1) |-> k],
                          LAMBDA k : k = Len(text) + 1 \/ text[k] = NL)
    IN  [n \in 1..Len(ends) |->
            SubSeq(text, (IF n = 1 THEN 1 ELSE ends[n - 1] + 1), ends[n] - 1)]

StartsWith(text, p) == Len(p) <= Len(text) /\ SubSeq(text, 1, Len(p)) = p

EndsWith(text, p) ==
    Len(p) <= Len(text) /\ SubSeq(text, Len(text) - Len(p) + 1, Len(text)) = p

OccursAt(text, p, k) ==
    k >= 1 /\ k + Len(p) - 1 <= Len(text) /\ SubSeq(text, k, k + Len(p) - 1) = p

Occurrences(text, p) == {k \in 1..Len(text) : OccursAt(text, p, k)}

Contains(text, p) == Occurrences(text, p) # {}

-----------------------------------------------------------------------------
(* C7 *)

TypeMark == <<"*", "*", "T", "y", "p", "e", "*", "*", ":", " ", BQ, BQ>>

UnionBullet == <<"*", " ", " ">>

IsTypeLine(line) ==
    /\ EndsWith(line, <<BQ, BQ>>)
    /\ StartsWith(line, TypeMark) \/ StartsWith(line, UnionBullet \o TypeMark)

\* a 'Type' line read back as <<rendered with the union bullet, type name>>
ReadTypeLine(line) ==
    IF StartsWith(line, UnionBullet)
    THEN <<TRUE, SubSeq(line, Len(UnionBullet) + Len(TypeMark) + 1, Len(line) - 2)>>
    ELSE <<FALSE, SubSeq(line, Len(TypeMark) + 1, Len(line) - 2)>>

ReadTypeLines(lines) ==
    LET found == SelectSeq(lines, IsTypeLine)
    IN  [n \in 1..Len(found) |-> ReadTypeLine(found[n])]

\* the nodes of a type tree in depth-first pre-order, each with the flag
\* it has to be rendered with: the root as asked, every descendant as a
\* member of a union
RECURSIVE PreOrder(_, _)
RECURSIVE PreOrderAll(_)
PreOrderAll(trees) ==
    IF trees = <<>> THEN <<>>
    ELSE PreOrder(Head(trees), TRUE) \o PreOrderAll(Tail(trees))

PreOrder(tree, flag) == <<<<flag, tree.typename>>>> \o PreOrderAll(tree.childtypes)

RECURSIVE TreeDepth(_)
TreeDepth(tree) ==
    IF tree.childtypes = <<>> THEN 1
    ELSE 1 + CHOOSE d \in 1..MaxTypeNodes + 1 :
                 /\ \E k \in 1..Len(tree.childtypes) : TreeDepth(tree.childtypes[k]) = d
                 /\ \A k \in 1..Len(tree.childtypes) : TreeDepth(tree.childtypes[k]) <= d

\* C7: gen_type_info emits exactly one 'Type' line per node of the type
\* tree, in depth-first pre-order; the root carries the union bullet only
\* when is_union is passed and every descendant of a union, at any depth,
\* carries it.
C7_TypeLinesPreOrder ==
    call.op = "gen_type_info" =>
        ReadTypeLines(Lines(call.ret)) = PreOrder(call.typedoc, call.is_union)

C7_Witness ==
    /\ call.op = "gen_type_info"
    /\ ~call.is_union
    /\ TreeDepth(call.typedoc) >= 3
    /\ Len(call.typedoc.childtypes) >= 2
    /\ Len(ReadTypeLines(Lines(call.ret))) = MaxTypeNodes

-----------------------------------------------------------------------------
(* RSTEmitter.genModuleDoc: the text stored for a module *)

S_Types == <<"T", "y", "p", "e", "s">>

S_Identities == <<"I", "d", "e", "n", "t", "i", "t", "i", "e", "s">>

S_Data_nodes == <<"D", "a", "t", "a", " ", "n", "o", "d", "e", "s">>

\* for k, v in td.typedoc.attrs.get("enums", {}).items(): s += block(...)
RECURSIVE gen_typedef_enums(_)
gen_typedef_enums(enums) ==
    IF enums = <<>> THEN <<>>
    ELSE block(<<"*", " ">> \o c(Head(enums)[1]) \o <<":", " ">> \o Head(enums)[2])
         \o gen_typedef_enums(Tail(enums))

\* if restrictions: for k, v in restrictions.items(): s += block(...)
\* (a missing and an empty restrictions dict are both falsy: no output)
RECURSIVE gen_typedef_restrictions(_)
gen_typedef_restrictions(restrictions) ==
    IF restrictions = <<>> THEN <<>>
    ELSE block(b(Head(restrictions)[1]) \o <<":", " ">> \o c(Head(restrictions)[2]))
         \o gen_typedef_restrictions(Tail(restrictions))

\* the body of the loop over mod.typedefs.items()
gen_typedef(typename, td) ==
    h4(typename)
    \o block(AttrGet(td.attrs, "desc", <<>>))
    \o block(b(<<"t", "y", "p", "e">>) \o <<":", " ">> \o c(td.typedoc.typename))
    \o gen_typedef_enums(AttrGet(td.typedoc.attrs, "enums", <<>>))
    \o gen_typedef_restrictions(AttrGet(td.typedoc.attrs, "restrictions", <<>>))
    \o (IF td.typedoc.typename = T_union
        THEN gen_child_types(td.typedoc.childtypes)
        ELSE <<>>)

RECURSIVE gen_typedefs(_)
gen_typedefs(typedefs) ==
    IF typedefs = <<>> THEN <<>>
    ELSE gen_typedef(Head(typedefs)[1], Head(typedefs)[2]) \o gen_typedefs(Tail(typedefs))

\* every identity that has a base taken as derived from base_id
derived_identities_any_base(identities, base_id) ==
    SelectSeq(identities, LAMBDA item : item[2].attrs.base # NoneStr)

\* derived = {key: value for key, value in mod.identities.items()
\*            if value.attrs["base"] == base_id}
derived_identities(identities, base_id) ==
    SelectSeq(identities, LAMBDA item : item[2].attrs.base = base_id)

\* for idname, id in derived.items(): s += ...
RECURSIVE gen_derived(_)
gen_derived(derived) ==
    IF derived = <<>> THEN <<>>
    ELSE h4(Head(derived)[1])
         \o block(b(<<"b", "a", "s", "e", " ", "i", "d", "e", "n", "t", "i", "t", "y">>)
                  \o <<":", " ">> \o Head(derived)[2].attrs.base)
         \o block(Head(derived)[2].attrs.desc)
         \o gen_derived(Tail(derived))

\* for base_id in mod.base_identities: s += ...
RECURSIVE gen_base_identities(_, _)
gen_base_identities(identities, base_identities) ==
    IF base_identities = <<>> THEN <<>>
    ELSE LET base_id == Head(base_identities)
         IN  h4(<<"b", "a", "s", "e", ":", " ">> \o i(base_id))
             \o block(DictGet(identities, base_id).attrs.desc)
             \o gen_derived(derived_identities(identities, base_id))
             \o gen_base_identities(identities, Tail(base_identities))

\* the 'Identities' section guarded by the typedefs instead of the identities
module_text_wrong_guard(mod) ==
    h1(mod.module_name)
    \o block(AttrGet(mod.module.attrs, "desc", <<>>))
    \o (IF Len(mod.typedefs) > 0
        THEN h3(S_Types) \o gen_typedefs(mod.typedefs)
        ELSE <<>>)
    \o (IF Len(mod.typedefs) > 0
        THEN h3(S_Identities) \o gen_base_identities(mod.identities, mod.base_identities)
        ELSE <<>>)
    \o (IF Len(mod.module.children) > 0 THEN h3(S_Data_nodes) ELSE <<>>)

\* the value of s at the end of genModuleDoc
module_text(mod) ==
    h1(mod.module_name)
    \o block(AttrGet(mod.module.attrs, "desc", <<>>))
    \o (IF Len(mod.typedefs) > 0
        THEN h3(S_Types) \o gen_typedefs(mod.typedefs)
        ELSE <<>>)
    \o (IF Len(mod.identities) > 0
        THEN h3(S_Identities) \o gen_base_identities(mod.identities, mod.base_identities)
        ELSE <<>>)
    \o (IF Len(mod.module.children) > 0 THEN h3(S_Data_nodes) ELSE <<>>)

genModuleDoc(mod, ctx) ==
    /\ moduledocs' = DictSet(moduledocs, mod.module_name, module_text(mod))
    /\ call' = [op |-> "genModuleDoc", mod |-> mod, ctx |-> ctx, ret |-> NoneStr,
                raised |-> FALSE]
    /\ UNCHANGED nappended

-----------------------------------------------------------------------------
(* RSTEmitter.genStatementDoc and RSTEmitter.emitDocs *)

K_leaf == <<"l", "e", "a", "f">>

K_container == <<"c", "o", "n", "t", "a", "i", "n", "e", "r">>

K_choice == <<"c", "h", "o", "i", "c", "e">>

K_case == <<"c", "a", "s", "e">>

\* DocEmitter.path_only: the keywords of the nodes that are 'skipped'
path_only ==
    { K_choice, K_case, <<"i", "n", "p", "u", "t">>, <<"o", "u", "t", "p", "u", "t">> }

\* re.sub("^.+:", "", comp): drop everything up to the last colon that has
\* at least one character before it
strip_component(comp) ==
    LET colons == {k \in 2..Len(comp) : comp[k] = ":"}
    IN  IF colons = {} THEN comp
        ELSE SubSeq(comp, (CHOOSE k \in colons : \A m \in colons : m <= k) + 1, Len(comp))

\* "/".join(components)
RECURSIVE join_path(_)
join_path(components) ==
    IF Len(components) = 0 THEN <<>>
    ELSE IF Len(components) = 1 THEN components[1]
    ELSE components[1] \o <<"/">> \o join_path(Tail(components))

\* yangpath.strip_namespace(path)
strip_namespace(path) ==
    LET comps == SplitOn(path, "/")
    IN  join_path([n \in 1..Len(comps) |-> strip_component(comps[n])])

\* pathstr as genStatementDoc computes it
statement_path(statement, ctx) ==
    IF ctx.opts.strip_namespace
    THEN strip_namespace(statement.attrs.path)
    ELSE statement.attrs.path

\* the value of s when genStatementDoc reaches its last statement
statement_text(statement, ctx) ==
    h4(statement_path(statement, ctx))
    \o (IF "desc" \in DOMAIN statement.attrs THEN block(statement.attrs.desc) ELSE <<>>)
    \o b(<<"n", "o", "d", "e", "t", "y", "p", "e">>) \o <<":", " ">> \o c(statement.keyword)
    \o (IF statement.attrs.is_key
        THEN <<" ", "(", "l", "i", "s", "t", " ", "k", "e", "y", ")">>
        ELSE <<>>)
    \o newline
    \o (IF statement.typedoc # NoneObj THEN gen_type_info(statement.typedoc, FALSE) ELSE <<>>)
    \o separator

\* the fragment assigned to the module's entry instead of appended to it
genStatementDoc_assign(statement, ctx) ==
    LET module_name == statement.module_doc.module_name
    IN  IF statement.keyword \in path_only
        THEN /\ call' = [op |-> "genStatementDoc", statement |-> statement, ctx |-> ctx,
                         ret |-> h4(statement_path(statement, ctx)), raised |-> FALSE]
             /\ UNCHANGED <<moduledocs, nappended>>
        ELSE /\ moduledocs' = DictSet(moduledocs, module_name,
                                      statement_text(statement, ctx))
             /\ nappended' = nappended + 1
             /\ call' = [op |-> "genStatementDoc", statement |-> statement, ctx |-> ctx,
                         ret |-> NoneStr, raised |-> FALSE]

genStatementDoc(statement, ctx) ==
    LET module_name == statement.module_doc.module_name
    IN  IF statement.keyword \in path_only
        THEN \* return s: the heading is handed back to the caller only
             /\ call' = [op |-> "genStatementDoc", statement |-> statement, ctx |-> ctx,
                         ret |-> h4(statement_path(statement, ctx)), raised |-> FALSE]
             /\ UNCHANGED <<moduledocs, nappended>>
        ELSE IF DictHas(moduledocs, module_name)
        THEN /\ moduledocs' = DictSet(moduledocs, module_name,
                                      DictGet(moduledocs, module_name)
                                      \o statement_text(statement, ctx))
             /\ nappended' = nappended + 1
             /\ call' = [op |-> "genStatementDoc", statement |-> statement, ctx |-> ctx,
                         ret |-> NoneStr, raised |-> FALSE]
        ELSE \* self.moduledocs[...] += s raises KeyError
             /\ call' = [op |-> "genStatementDoc", statement |-> statement, ctx |-> ctx,
                         ret |-> NoneStr, raised |-> TRUE]
             /\ UNCHANGED <<moduledocs, nappended>>

RECURSIVE join_docs(_)

\* the blocks of the modules joined by one newline instead of two
join_docs_one_newline(docs) ==
    IF docs = <<>> THEN <<>>
    ELSE Head(docs) \o <<NL>> \o join_docs(Tail(docs))

\* for d in docs: s += "{}\n\n".format(d)
join_docs(docs) ==
    IF docs = <<>> THEN <<>>
    ELSE Head(docs) \o <<NL, NL>> \o join_docs(Tail(docs))

\* the value emitDocs returns
emit_text(docs_by_module, ctx) ==
    LET names == DictKeys(docs_by_module)
        docs  == [k \in 1..Len(names) |-> DictGet(docs_by_module, names[k])]
    IN  (IF ctx.opts.doc_title = NoneStr THEN <<>> ELSE h1(ctx.opts.doc_title))
        \o join_docs(docs)

emitDocs(ctx, section) ==
    /\ call' = [op |-> "emitDocs", ctx |-> ctx, section |-> section,
                ret |-> emit_text(moduledocs, ctx), raised |-> FALSE]
    /\ UNCHANGED <<moduledocs, nappended>>

-----------------------------------------------------------------------------
(* Module documentation objects handed over by the toolchain *)

MaxBases == 2

N_a == <<"a">>

N_bb == <<"b", "b">>

NoAttrs == <<>>

TypedefsNone == <<>>

TypedefsOne ==
    << <<<<"t", "1">>, [attrs |-> [desc |-> <<"t", "d">>], typedoc |-> StringPattern]>> >>

TypedefsTwo ==
    << <<<<"e", "1">>, [attrs |-> NoAttrs, typedoc |-> EnumType]>>,
       <<<<"u", "1">>, [attrs |-> [desc |-> <<"u", "d">>],
                        typedoc |-> UnionOf(<<StringPlain, UnionOf(<<Boolean>>)>>)]>> >>

TypedefDicts == {TypedefsNone, TypedefsOne, TypedefsTwo}

Identity(base, desc) == [attrs |-> [base |-> base, desc |-> desc]]

B1 == <<"B", "1">>

B2 == <<"B", "2">>

IdentitiesNone == <<>>

\* one base with one derived identity
IdentitiesSmall ==
    << <<B1, Identity(NoneStr, <<"d", "B", "1">>)>>,
       <<<<"D", "1">>, Identity(B1, <<"d", "D", "1">>)>> >>

\* two bases whose derived identities interleave, and one identity whose
\* base is defined in another module
IdentitiesMixed ==
    << <<B1, Identity(NoneStr, <<"d", "B", "1">>)>>,
       <<<<"D", "1">>, Identity(B1, <<"d", "D", "1">>)>>,
       <<B2, Identity(NoneStr, <<"d", "B", "2">>)>>,
       <<<<"D", "2">>, Identity(B2, <<"d", "D", "2">>)>>,
       <<<<"D", "3">>, Identity(B1, <<"d", "D", "3">>)>>,
       <<<<"X", "1">>, Identity(<<"o", ":", "E">>, <<"d", "X", "1">>)>> >>

\* the sequences of at most n elements of S
RECURSIVE SeqsUpTo(_, _)
SeqsUpTo(S, n) ==
    IF n = 0 THEN {<<>>}
    ELSE LET shorter == SeqsUpTo(S, n - 1)
         IN  shorter \cup {<<x>> \o s : x \in S, s \in shorter}

\* <<identities, base_identities>>: every base identity is an identity of
\* the module
IdentityConfigs ==
    {<<IdentitiesNone, <<>>>>}
    \cup {<<IdentitiesSmall, bases>> : bases \in SeqsUpTo({B1}, MaxBases)}
    \cup {<<IdentitiesMixed, bases>> : bases \in SeqsUpTo({B1, B2}, MaxBases)}

ModuleDoc(module_name, attrs, typedefs, identities, base_identities, children) ==
    [module_name |-> module_name,
     module |-> [attrs |-> attrs, children |-> children],
     typedefs |-> typedefs,
     identities |-> identities,
     base_identities |-> base_identities]

ModuleAttrs == {NoAttrs, [desc |-> <<"d", "m">>]}

ChildLists == {<<>>, <<"x">>}

\* the modules genModuleDoc is applied to on its own
ModuleDocs ==
    {ModuleDoc(N_a, attrs, typedefs, ids[1], ids[2], children) :
        attrs \in ModuleAttrs, typedefs \in TypedefDicts,
        ids \in IdentityConfigs, children \in ChildLists}

\* the modules of a documentation run
ModA == ModuleDoc(N_a, [desc |-> <<"d", "m">>], TypedefsOne, IdentitiesSmall, <<B1>>, <<"x">>)

ModAPlain == ModuleDoc(N_a, NoAttrs, TypedefsNone, IdentitiesNone, <<>>, <<>>)

ModB == ModuleDoc(N_bb, [desc |-> <<"d", "b">>], TypedefsNone, IdentitiesNone, <<>>, <<"y">>)

Mods == {ModA, ModAPlain, ModB}

-----------------------------------------------------------------------------
(* Statements and contexts of a documentation run *)

MaxStatements == 2

Statement(keyword, attrs, typedoc, module_name) ==
    [keyword |-> keyword, attrs |-> attrs, typedoc |-> typedoc,
     module_doc |-> [module_name |-> module_name]]

StmtLeafA ==
    Statement(K_leaf,
              [path |-> <<"/", "p", ":", "c", "/", "p", ":", "x">>, is_key |-> TRUE,
               desc |-> <<"d", "x">>],
              StringPattern, N_a)

StmtContainerA ==
    Statement(K_container, [path |-> <<"/", "p", ":", "c">>, is_key |-> FALSE],
              NoneObj, N_a)

StmtChoiceA ==
    Statement(K_choice,
              [path |-> <<"/", "p", ":", "c", "/", "p", ":", "h">>, is_key |-> FALSE,
               desc |-> <<"d", "h">>],
              NoneObj, N_a)

StmtLeafB ==
    Statement(K_leaf, [path |-> <<"/", "y">>, is_key |-> FALSE],
              UnionOf(<<IntRange, Boolean>>), N_bb)

StmtCaseB ==
    Statement(K_case, [path |-> <<"/", "y", "/", "k">>, is_key |-> FALSE],
              NoneObj, N_bb)

Statements == {StmtLeafA, StmtContainerA, StmtChoiceA, StmtLeafB, StmtCaseB}

Titles == {NoneStr, <<"T", "o">>}

Contexts ==
    {[opts |-> [strip_namespace |-> strip, doc_title |-> title]] :
        strip \in BOOLEAN, title \in Titles}

\* the contexts that differ in what genModuleDoc and emitDocs read
TitleContexts == {ctx \in Contexts : ~ctx.opts.strip_namespace}

Sections == {NoneStr, N_a}

-----------------------------------------------------------------------------
(* The documentation run: the toolchain calls the emitter's methods *)

GenModuleDoc == \E mod \in Mods, ctx \in TitleContexts : genModuleDoc(mod, ctx)

GenStatementDoc ==
    /\ nappended < MaxStatements
    /\ \E statement \in Statements, ctx \in Contexts : genStatementDoc(statement, ctx)

EmitDocs == \E ctx \in TitleContexts, section \in Sections : emitDocs(ctx, section)

Next == GenModuleDoc \/ GenStatementDoc \/ EmitDocs

Spec == Init /\ [][Next]_vars

-----------------------------------------------------------------------------
(* genModuleDoc applied to each module documentation object *)

GenAnyModuleDoc == \E mod \in ModuleDocs, ctx \in TitleContexts : genModuleDoc(mod, ctx)

NextModule == GenAnyModuleDoc

SpecModule == Init /\ [][NextModule]_vars

-----------------------------------------------------------------------------
(* The header helpers applied while the emitter holds documentation *)

InitHeader ==
    /\ moduledocs \in {<<>>, DictSet(<<>>, N_a, module_text(ModA))}
    /\ call = [op |-> "init"]
    /\ nappended = 0

NextHeader == HeaderCall

SpecHeader == InitHeader /\ [][NextHeader]_vars

-----------------------------------------------------------------------------
(* C5 *)

Markers == <<"#", "*", "=", "-", "^", "\"">>

\* C5: a header helper returns the content, a newline, the level's marker
\* repeated len(content) times and a newline; the six markers are pairwise
\* distinct; a call of a helper leaves the emitter's documentation as it was.
C5_HeaderShape ==
    /\ [](call.op = "h" =>
            LET n == Len(call.content)
                r == call.ret
            IN  /\ Len(r) = 2 * n + 2
                /\ SubSeq(r, 1, n) = call.content
                /\ r[n + 1] = NL
                /\ \A k \in (n + 2)..(2 * n + 1) : r[k] = Markers[call.level]
                /\ r[2 * n + 2] = NL
                /\ \A m \in 1..6 : m # call.level => Markers[m] # Markers[call.level])
    /\ [][call'.op = "h" => moduledocs' = moduledocs]_vars

C5_Witness ==
    /\ call.op = "h"
    /\ call.level = 6
    /\ Len(call.content) = MaxContentLen
    /\ "#" \in {call.content[k] : k \in 1..Len(call.content)}
    /\ moduledocs # <<>>

-----------------------------------------------------------------------------
(* C1 *)

\* where the k-th module's block starts in the document, counted from 0
RECURSIVE BlockOffset(_, _, _)
BlockOffset(docs, titleLen, k) ==
    IF k = 1 THEN titleLen
    ELSE BlockOffset(docs, titleLen, k - 1) + Len(docs[k - 1][2]) + 2

IsPrefixOf(s, t) == Len(s) <= Len(t) /\ \A k \in 1..Len(s) : s[k] = t[k]

\* C1: emitDocs returns the title heading (nothing when doc_title is None)
\* followed by one block per module name, in the order of the names' first
\* insertion, each block the module's accumulated text and two newlines,
\* and nothing else.  First-insertion order: a call never moves a name that
\* is already in the mapping, and a new name goes last.
C1_EmitDocsDocument ==
    /\ [](call.op = "emitDocs" =>
            LET title == call.ctx.opts.doc_title
                head  == IF title = NoneStr THEN <<>> ELSE h1(title)
                r     == call.ret
            IN  /\ IsPrefixOf(head, r)
                /\ \A k \in 1..Len(moduledocs) :
                       OccursAt(r, moduledocs[k][2] \o <<NL, NL>>,
                                BlockOffset(moduledocs, Len(head), k) + 1)
                /\ Len(r) = BlockOffset(moduledocs, Len(head), Len(moduledocs) + 1)
                /\ \A k, m \in 1..Len(moduledocs) :
                       moduledocs[k][1] = moduledocs[m][1] => k = m)
    /\ [][IsPrefixOf(DictKeys(moduledocs), DictKeys(moduledocs'))]_vars

C1_Witness ==
    /\ call.op = "emitDocs"
    /\ call.ctx.opts.doc_title # NoneStr
    /\ Len(moduledocs) = 2
    /\ moduledocs[1][1] = N_bb
    /\ moduledocs[2][2] = module_text(ModAPlain)
    /\ nappended = MaxStatements

-----------------------------------------------------------------------------
(* C2 *)

\* C2: a genStatementDoc call for a statement that is not path-only and
\* whose module has an entry appends the statement's fragment (path heading
\* first, separator last) to that module's text: the old text stays as a
\* prefix, the other modules' entries and the set and order of the module
\* names do not change.
C2_StatementAppends ==
    [][(/\ call'.op = "genStatementDoc"
        /\ call'.statement.keyword \notin path_only
        /\ DictHas(moduledocs, call'.statement.module_doc.module_name))
       => LET name == call'.statement.module_doc.module_name
              old  == DictGet(moduledocs, name)
              new  == DictGet(moduledocs', name)
              frag == SubSeq(new, Len(old) + 1, Len(new))
              path == IF call'.ctx.opts.strip_namespace
                      THEN strip_namespace(call'.statement.attrs.path)
                      ELSE call'.statement.attrs.path
          IN  /\ DictKeys(moduledocs') = DictKeys(moduledocs)
              /\ IsPrefixOf(old, new)
              /\ IsPrefixOf(path \o <<NL>> \o Repeat("-", Len(path)) \o <<NL>>, frag)
              /\ EndsWith(frag, <<NL, NL, "-", "-", "-", "-", "-", NL, NL>>)
              /\ \A k \in 1..Len(moduledocs) :
                     moduledocs[k][1] # name => moduledocs'[k] = moduledocs[k]]_vars

C2_Witness ==
    /\ call.op = "genStatementDoc"
    /\ ~call.raised
    /\ call.statement = StmtLeafB
    /\ Len(moduledocs) = 2
    /\ nappended = MaxStatements
    /\ Len(DictGet(moduledocs, N_bb)) >
           Len(module_text(ModB)) + Len(statement_text(StmtLeafB, call.ctx))

-----------------------------------------------------------------------------
(* C3 *)

\* C3: after genStatementDoc on a path-only statement whose module has an
\* entry, the module's documentation holds the statement's path heading.
C3_SkippedNodePathEmitted ==
    (/\ call.op = "genStatementDoc"
     /\ call.statement.keyword \in path_only
     /\ DictHas(moduledocs, call.statement.module_doc.module_name))
    => Contains(DictGet(moduledocs, call.statement.module_doc.module_name),
                h4(statement_path(call.statement, call.ctx)))

-----------------------------------------------------------------------------
(* C4 *)

\* C4: emitDocs returns the output of all modules when no section is given
\* and the output of the given section only when one is given: the text of
\* no other module is part of it.
C4_SingleSection ==
    call.op = "emitDocs" =>
        \A k \in 1..Len(moduledocs) :
            IF call.section = NoneStr \/ call.section = moduledocs[k][1]
            THEN Contains(call.ret, moduledocs[k][2])
            ELSE ~Contains(call.ret, moduledocs[k][2])

-----------------------------------------------------------------------------
(* Reading the headings of a module's text back *)

\* the indices of the lines that are underlined with the marker
HeadingIndices(lines, marker) ==
    SelectSeq([n \in 1..Len(lines) |-> n],
              LAMBDA n : /\ n < Len(lines)
                         /\ Len(lines[n]) > 0
                         /\ lines[n + 1] = Repeat(marker, Len(lines[n])))

\* the index of the first section heading after line n, or the end of the text
SectionEnd(lines, n) ==
    LET later == SelectSeq(HeadingIndices(lines, "="), LAMBDA m : m > n)
    IN  IF later = <<>> THEN Len(lines) + 1 ELSE later[1]

\* the indices of the sub-headings of the section with the given title
SubHeadingIndices(lines, title) ==
    LET sections == SelectSeq(HeadingIndices(lines, "="), LAMBDA n : lines[n] = title)
    IN  IF sections = <<>> THEN <<>>
        ELSE SelectSeq(HeadingIndices(lines, "-"),
                       LAMBDA n : n > sections[1] /\ n < SectionEnd(lines, sections[1]))

\* the sub-headings of a section, each with the non-empty lines below it
Entries(lines, title) ==
    LET idx == SubHeadingIndices(lines, title)
        sections == SelectSeq(HeadingIndices(lines, "="), LAMBDA n : lines[n] = title)
        stop(k) == IF k < Len(idx) THEN idx[k + 1] ELSE SectionEnd(lines, sections[1])
    IN  [k \in 1..Len(idx) |->
            <<lines[idx[k]],
              SelectSeq(SubSeq(lines, idx[k] + 2, stop(k) - 1), LAMBDA l : l # <<>>)>>]

-----------------------------------------------------------------------------
(* C8 *)

TypesTitle == <<"T", "y", "p", "e", "s">>

IdentitiesTitle == <<"I", "d", "e", "n", "t", "i", "t", "i", "e", "s">>

DataNodesTitle == <<"D", "a", "t", "a", " ", "n", "o", "d", "e", "s">>

\* C8: the text genModuleDoc stores starts with the module-name heading and
\* the description block; its section headings are 'Types', 'Identities'
\* and 'Data nodes' in this order, each present exactly when typedefs,
\* identities and module.children, respectively, are not empty; the typedefs
\* are the sub-headings of 'Types' and 'Data nodes' ends the text.
C8_ModuleTextLayout ==
    call.op = "genModuleDoc" =>
        LET mod   == call.mod
            text  == DictGet(moduledocs, mod.module_name)
            lines == Lines(text)
            desc  == IF "desc" \in DOMAIN mod.module.attrs
                     THEN mod.module.attrs.desc ELSE <<>>
            sections == HeadingIndices(lines, "=")
            expected ==
                (IF mod.typedefs # <<>> THEN <<TypesTitle>> ELSE <<>>)
                \o (IF mod.identities # <<>> THEN <<IdentitiesTitle>> ELSE <<>>)
                \o (IF mod.module.children # <<>> THEN <<DataNodesTitle>> ELSE <<>>)
            typeIdx == SubHeadingIndices(lines, TypesTitle)
        IN  /\ IsPrefixOf(mod.module_name \o <<NL>>
                          \o Repeat("#", Len(mod.module_name)) \o <<NL, NL>>
                          \o desc \o <<NL, NL>>, text)
            /\ HeadingIndices(lines, "#") = <<1>>
            /\ [k \in 1..Len(sections) |-> lines[sections[k]]] = expected
            /\ [k \in 1..Len(typeIdx) |-> lines[typeIdx[k]]] = DictKeys(mod.typedefs)
            /\ mod.module.children # <<>> =>
                   sections[Len(sections)] = Len(lines) - 2

C8_Witness ==
    /\ call.op = "genModuleDoc"
    /\ Len(call.mod.typedefs) = 2
    /\ Len(call.mod.identities) > 2
    /\ Len(call.mod.base_identities) = MaxBases
    /\ call.mod.module.children # <<>>
    /\ "desc" \notin DOMAIN call.mod.module.attrs

C8_WitnessBare ==
    /\ call.op = "genModuleDoc"
    /\ call.mod.typedefs = <<>>
    /\ call.mod.identities # <<>>
    /\ call.mod.module.children = <<>>

-----------------------------------------------------------------------------
(* C6 *)

BaseIdentityMark ==
    <<"*", "*", "b", "a", "s", "e", " ", "i", "d", "e", "n", "t", "i", "t", "y",
      "*", "*", ":", " ">>

BaseHeading(base_id) == <<"b", "a", "s", "e", ":", " ", "*">> \o base_id \o <<"*">>

\* the entries of the identities whose base is base_id, in the order of
\* mod.identities
DerivedEntries(identities, base_id) ==
    LET derived == SelectSeq(identities, LAMBDA item : item[2].attrs.base = base_id)
    IN  [k \in 1..Len(derived) |->
            <<derived[k][1], <<BaseIdentityMark \o base_id, derived[k][2].attrs.desc>>>>]

\* one group per element of base_identities: the base's heading and
\* description, then its derived identities
RECURSIVE GroupedEntries(_, _)
GroupedEntries(identities, bases) ==
    IF bases = <<>> THEN <<>>
    ELSE <<<<BaseHeading(Head(bases)), <<DictGet(identities, Head(bases)).attrs.desc>>>>>>
         \o DerivedEntries(identities, Head(bases))
         \o GroupedEntries(identities, Tail(bases))

IsDerivedEntry(entry) == Len(entry[2]) = 2 /\ IsPrefixOf(BaseIdentityMark, entry[2][1])

\* C6: the 'Identities' section holds, for each base_id of base_identities
\* in order, the base's heading and description followed by exactly the
\* identities whose base is base_id, each with heading, base line and
\* description; an identity is a derived entry once per occurrence of its
\* base in base_identities, always with its own base on the base line.
C6_IdentitiesGroupedByBase ==
    call.op = "genModuleDoc" =>
        LET mod     == call.mod
            lines   == Lines(DictGet(moduledocs, mod.module_name))
            entries == Entries(lines, IdentitiesTitle)
        IN  /\ entries = GroupedEntries(mod.identities, mod.base_identities)
            /\ \A n \in 1..Len(mod.identities) :
                   Cardinality({k \in 1..Len(entries) :
                                   /\ IsDerivedEntry(entries[k])
                                   /\ entries[k][1] = mod.identities[n][1]
                                   /\ entries[k][2][1] =
                                          BaseIdentityMark \o mod.identities[n][2].attrs.base})
                   = Cardinality({m \in 1..Len(mod.base_identities) :
                                     mod.base_identities[m] = mod.identities[n][2].attrs.base})
            /\ \A k \in 1..Len(entries) :
                   IsDerivedEntry(entries[k]) =>
                       \E n \in 1..Len(mod.identities) :
                           /\ mod.identities[n][1] = entries[k][1]
                           /\ entries[k][2][1] =
                                  BaseIdentityMark \o mod.identities[n][2].attrs.base

C6_Witness ==
    /\ call.op = "genModuleDoc"
    /\ call.mod.identities = IdentitiesMixed
    /\ call.mod.base_identities = <<B2, B1>>
    /\ Len(Entries(Lines(DictGet(moduledocs, call.mod.module_name)), IdentitiesTitle)) = 5

C6_WitnessRepeatedBase ==
    /\ call.op = "genModuleDoc"
    /\ call.mod.identities = IdentitiesSmall
    /\ call.mod.base_identities = <<B1, B1>>
    /\ Len(Entries(Lines(DictGet(moduledocs, call.mod.module_name)), IdentitiesTitle)) = 4

====
